---- MODULE Spec2Model ----
(***************************************************************************)
(* Adversarial-training ensembles (torchensemble/adversarial_training.py). *)
(* The model follows fit() of AdversarialTrainingClassifier and            *)
(* AdversarialTrainingRegressor statement by statement: construction of    *)
(* the base estimators, _validate_parameters, _decide_n_outputs, the       *)
(* joblib worker pool, the per-epoch dispatch of _parallel_fit_per_epoch,  *)
(* the validation / best-snapshot step and the commit after the loop.      *)
(*                                                                         *)
(* Estimators are objects on a heap: a list (estimators, rets,             *)
(* estimators_) holds references, so that two lists sharing one object are *)
(* distinguishable from two lists holding equal copies.                    *)
(***************************************************************************)
EXTENDS Integers, Sequences, FiniteSets, TLC

\* ---------------------------------------------------------------- bounds
NEstimators == 2      \* n_estimators of the ensemble under analysis
NBatches    == 2      \* batches the training loader yields per pass
MaxEpochs   == 2      \* largest value of the epochs argument tried
MaxMetric   == 2      \* validation metrics range over 0..MaxMetric
MaxFits     == 2      \* fit() calls made on the one ensemble
Scale       == 2      \* tensor values and epsilon are counted in 1/Scale
MaxLen      == 2      \* elements of a batch handed to _get_fgsm_samples
MaxInterval == 3      \* largest log_interval a trainer is invoked with

\* float("inf"): larger than every metric the validation step can produce
Inf   == MaxMetric + 1
\* a local variable that has not been assigned yet
Unset == -1

Idx == 0 .. (NEstimators - 1)

VARIABLES
    is_classification, \* TRUE: AdversarialTrainingClassifier, FALSE: ...Regressor
    n_jobs,            \* self.n_jobs as joblib resolves it: 1 = in-process
    estimators_,       \* self.estimators_ : list of object references
    n_outputs,         \* self.n_outputs
    heap,              \* object reference -> estimator state
    args,              \* arguments of the running fit() call
    pc,                \* position of the coordinating thread inside fit()
    err,               \* the exception fit() terminated with, or "none"
    estimators,        \* local list `estimators` / `rets` of fit()
    best,              \* local best_acc / best_mse
    epoch,             \* loop variable of the training loop
    pool,              \* the joblib.Parallel context: "none", "held", "released"
    task,              \* per dispatched call of _parallel_fit_per_epoch
    doneOrder,         \* indices of the tasks of this dispatch, in completion order
    calls,             \* number of fit() calls started
    makeCalls,         \* _make_estimator calls made by the running fit() call
    hist,              \* validation metrics computed by the running call
    commits,           \* writes to self.estimators_ made by the running call
    saves,             \* io.save invocations made by the running call
    produced,          \* epoch -> states of the list the dispatch returned
    entry,             \* self.estimators_ / n_outputs as they were at call entry
    before,            \* states of self.estimators_ when the epoch was dispatched
    errValue,          \* the value the message of a ValueError of fit() quotes
    fgsm,              \* one call of _get_fgsm_samples: its arguments and outcome
    train_loader       \* shape of the training data the caller passes to fit()

vars == << is_classification, n_jobs, estimators_, n_outputs, heap, args, pc,
           err, estimators, best, epoch, pool, task, doneOrder, calls,
           makeCalls, hist, commits, saves, produced, entry, before, errValue,
           fgsm, train_loader >>

\* ------------------------------------------------------------- helpers
\* the states of the objects a list refers to, position by position
Values(list) == [i \in DOMAIN list |-> heap[list[i]]]

Range(f) == {f[i] : i \in DOMAIN f}

NoArgs == [lr |-> 1, weight_decay |-> 0, epochs |-> 1, epsilon |-> Scale,
           log_interval |-> 2, test_loader |-> FALSE, save_model |-> FALSE]

\* no call of _get_fgsm_samples under observation
NoCall == [st |-> "none"]

IdleTask == [st |-> "idle", b |-> 0, obj |-> <<0, 0, 0>>, epoch |-> 0, idx |-> 0,
             trace |-> << >>]


\* the heap without the objects no list in `roots` refers to
Collect(h, roots) == [o \in (DOMAIN h) \cap roots |-> h[o]]

\* ------------------------------------------------- BaseModule (_base.py)
\* _make_estimator: a fresh estimator from the template; `i` is the position
\* it is appended at, `c` the fit() call creating it
NewEstimator(i, c) == [tag |-> i, call |-> c, steps |-> 0, lastIdx |-> Unset]

\* _decide_n_outputs(train_loader, is_clf): the label count on the
\* classification path, the trailing target dimension on the regression path
DecideNOutputs(loader, is_clf) ==
    IF is_clf THEN loader.classes
    ELSE IF loader.rank = 1 THEN 1 ELSE loader.dim

\* the shapes a training loader can have: number of distinct labels, rank and
\* trailing dimension of a target batch
Loaders == [classes : 1 .. 2, rank : 1 .. 2, dim : 1 .. 2]

\* ---------------------------------------- _BaseAdversarialTraining
\* a validator that takes the documented closed range [0, 1] for epsilon
ValidationErrorClosedRange(a) ==
    IF ~ (a.lr > 0) THEN "lr"
    ELSE IF ~ (a.weight_decay >= 0) THEN "weight_decay"
    ELSE IF ~ (a.epochs > 0) THEN "epochs"
    ELSE IF ~ (0 <= a.epsilon /\ a.epsilon <= Scale) THEN "epsilon"
    ELSE IF ~ (a.log_interval > 0) THEN "log_interval"
    ELSE "none"

\* _validate_parameters: the checks in source order; the name of the first
\* offending parameter, or "none"
ValidationError(a) ==
    IF ~ (a.lr > 0) THEN "lr"
    ELSE IF ~ (a.weight_decay >= 0) THEN "weight_decay"
    ELSE IF ~ (a.epochs > 0) THEN "epochs"
    ELSE IF ~ (0 < a.epsilon /\ a.epsilon <= Scale) THEN "epsilon"
    ELSE IF ~ (a.log_interval > 0) THEN "log_interval"
    ELSE "none"

\* the value each message quotes: msg.format(lr), msg.format(weight_decay),
\* ... (lines 181-206)
ValidationValue(a) ==
    IF ~ (a.lr > 0) THEN a.lr
    ELSE IF ~ (a.weight_decay >= 0) THEN a.weight_decay
    ELSE IF ~ (a.epochs > 0) THEN a.epochs
    ELSE IF ~ (0 < a.epsilon /\ a.epsilon <= Scale) THEN a.epsilon
    ELSE IF ~ (a.log_interval > 0) THEN a.log_interval
    ELSE Unset

\* the argument tuples fit() is called with
FitArgs == [lr : {0, 1}, weight_decay : {-1, 0}, epochs : 0 .. MaxEpochs,
            epsilon : {0, Scale, Scale + 1}, log_interval : {0, 2},
            test_loader : BOOLEAN, save_model : BOOLEAN]

\* --------------------------------------------------- _get_fgsm_samples
\* a range check that forgets the lower end
RangeOKUpperOnly(batch) ==
    batch.min < batch.max /\ batch.max <= Scale

\* the range check on the observed extrema of a batch
RangeOK(batch) ==
    0 <= batch.min /\ batch.min < batch.max /\ batch.max <= Scale

\* torch.min(sample), torch.max(sample)
Min(sample) ==
    CHOOSE m \in Range(sample) : \A i \in DOMAIN sample : m <= sample[i]

Max(sample) ==
    CHOOSE m \in Range(sample) : \A i \in DOMAIN sample : m >= sample[i]

\* sample_grad.sign(), elementwise
Sign(g) == IF g > 0 THEN 1 ELSE IF g < 0 THEN -1 ELSE 0

\* torch.clamp(x, lo, hi), elementwise
Clamp(x, lo, hi) == IF x < lo THEN lo ELSE IF x > hi THEN hi ELSE x

\* "{:.3f}".format(v): v, counted in 1/Scale, printed in thousandths
Format3(v) == (2000 * v + Scale) \div (2 * Scale)

NoReport == [min |-> 0, max |-> 0]

\* _get_fgsm_samples(sample, epsilon, sample_grad): the ValueError with the
\* observed range, or the clamped perturbed sample (lines 149-165)
GetFgsmSamples(sample, epsilon, sample_grad) ==
    LET min_value == Min(sample)
        max_value == Max(sample)
    IN IF ~ RangeOK([min |-> min_value, max |-> max_value])
       THEN [st |-> "raised", out |-> << >>,
             report |-> [min |-> Format3(min_value), max |-> Format3(max_value)]]
       ELSE [st |-> "returned",
             out |-> [i \in DOMAIN sample |->
                        Clamp(sample[i] + epsilon * Sign(sample_grad[i]), 0, Scale)],
             report |-> NoReport]

\* the batches, gradients and steps _get_fgsm_samples is called with
SampleValues == -1 .. (Scale + 1)

GradValues == {-2, 0, 1}

FgsmCalls ==
    UNION {[st : {"ready"}, sample : [1 .. n -> SampleValues],
            epsilon : 1 .. Scale, grad : [1 .. n -> GradValues],
            out : {<< >>}, report : {NoReport}] : n \in 1 .. MaxLen}

\* the batches the training loader may yield: inside [0,1], one value at 1.5,
\* one value below 0, and all values equal to 0.5
TrainBatches == {[min |-> 0, max |-> Scale], [min |-> 0, max |-> Scale + 1],
                 [min |-> -1, max |-> Scale], [min |-> 1, max |-> 1]}

\* ------------------------------------------------------------ fit()
\* best_acc = 0. / best_mse = float("inf")
InitialBest(is_clf) == IF is_clf THEN 0 ELSE Inf

\* a comparison that also accepts a tie
ImprovesOrTies(is_clf, m, b) == IF is_clf THEN m >= b ELSE m <= b

\* a comparison that accepts any change of the metric
ImprovesOnChange(is_clf, m, b) == m # b

\* acc > best_acc / mse < best_mse
Improves(is_clf, m, b) == IF is_clf THEN m > b ELSE m < b

Init ==
    /\ is_classification \in BOOLEAN
    /\ n_jobs \in {1, 2}
    /\ estimators_ = << >>
    /\ n_outputs = Unset
    /\ heap = << >>
    /\ args = NoArgs
    /\ pc = "idle"
    /\ err = "none"
    /\ estimators = << >>
    /\ best = Unset
    /\ epoch = 0
    /\ pool = "none"
    /\ task = [i \in Idx |-> IdleTask]
    /\ doneOrder = << >>
    /\ calls = 0
    /\ makeCalls = 0
    /\ hist = << >>
    /\ commits = << >>
    /\ saves = << >>
    /\ produced = << >>
    /\ entry = [refs |-> << >>, vals |-> << >>, n_outputs |-> Unset]
    /\ before = << >>
    /\ errValue = Unset
    /\ fgsm = NoCall
    /\ train_loader \in Loaders

\* fit() is entered and the base estimators are instantiated (lines 246-249)
Fit(a) ==
    /\ pc = "idle"
    /\ calls < MaxFits
    /\ calls' = calls + 1
    /\ args' = a
    /\ LET fresh == [i \in Idx |-> << calls + 1, 0, i >>]
           kept  == Collect(heap, Range(estimators_))
       IN /\ estimators' = fresh
          /\ heap' = [o \in (DOMAIN kept) \cup Range(fresh) |->
                         IF o \in DOMAIN kept THEN kept[o]
                         ELSE NewEstimator(o[3], calls + 1)]
    /\ makeCalls' = NEstimators
    /\ entry' = [refs |-> estimators_, vals |-> Values(estimators_),
                 n_outputs |-> n_outputs]
    /\ pc' = "validate"
    /\ UNCHANGED << train_loader, fgsm, errValue, is_classification, n_jobs, estimators_, n_outputs, err,
                    best, epoch, pool, task, doneOrder, hist, commits, saves,
                    produced, before >>

\* an exception that is swallowed on its way out of fit()
Swallowed(e) ==
    /\ pc' = "failed"
    /\ err' = "none"
    /\ estimators' = << >>
    /\ task' = [i \in Idx |-> IdleTask]
    /\ doneOrder' = << >>
    /\ heap' = Collect(heap, Range(estimators_))

\* fit() leaves with an exception: its locals and the worker-side objects die
Raise(e) ==
    /\ pc' = "failed"
    /\ err' = e
    /\ estimators' = << >>
    /\ task' = [i \in Idx |-> IdleTask]
    /\ doneOrder' = << >>
    /\ heap' = Collect(heap, Range(estimators_))

\* control is back with the caller: the frame of fit() and the records kept
\* about the call are dropped; the ensemble keeps estimators_ and n_outputs
Return ==
    /\ pc \in {"done", "failed"}
    /\ pc' = "idle"
    /\ args' = NoArgs
    /\ err' = "none"
    /\ estimators' = << >>
    /\ best' = Unset
    /\ epoch' = 0
    /\ pool' = "none"
    /\ makeCalls' = 0
    /\ hist' = << >>
    /\ commits' = << >>
    /\ saves' = << >>
    /\ produced' = << >>
    /\ before' = << >>
    /\ entry' = [refs |-> << >>, vals |-> << >>, n_outputs |-> Unset]
    /\ heap' = Collect(heap, Range(estimators_))
    /\ doneOrder' = << >>
    /\ errValue' = Unset
    /\ UNCHANGED << train_loader, fgsm, is_classification, n_jobs, estimators_, n_outputs,
                    task, calls >>

\* self._validate_parameters(...) (lines 250-254)
ValidateParameters ==
    /\ pc = "validate"
    /\ IF ValidationError(args) = "none"
       THEN /\ pc' = "prepare"
            /\ UNCHANGED << err, errValue, estimators, task, doneOrder, heap >>
       ELSE /\ Raise(ValidationError(args))
            /\ errValue' = ValidationValue(args)
    /\ UNCHANGED << train_loader, fgsm, is_classification, n_jobs, estimators_, n_outputs, args,
                    best, epoch, pool, calls, makeCalls, hist, commits, saves,
                    produced, entry, before >>

\* n_outputs, the criterion, the initial best and the worker pool
\* (lines 255-272); both fit() methods pass True to _decide_n_outputs
Prepare ==
    /\ pc = "prepare"
    /\ n_outputs' = DecideNOutputs(train_loader, TRUE)
    /\ best' = InitialBest(is_classification)
    /\ pool' = "held"
    /\ epoch' = 0
    /\ pc' = "loop"
    /\ UNCHANGED << train_loader, fgsm, errValue, is_classification, n_jobs, estimators_, heap, args, err,
                    estimators, task, doneOrder, calls, makeCalls, hist,
                    commits, saves, produced, entry, before >>

\* --------------------------------------------- the parallel dispatch
\* a loop variable that does not advance
SameEpoch(e) == e

\* for epoch in range(epochs) (line 274 / 412): the value of the next
\* iteration
NextEpoch(e) == e + 1

\* a block that is left without closing the pool
LeftHeld(p) == p

\* leaving `with Parallel(n_jobs=self.n_jobs) as parallel:` (line 271 / 409),
\* at its end or with an exception: the context manager closes the pool
Released(p) == "released"

\* the object a trainer works on: with in-process workers (n_jobs 1) the very
\* object of the caller's list, with pool workers a pickled copy of it
Handed(o, jobs, c, e, i) == IF jobs = 1 THEN o ELSE << c, e + 1, i >>

\* the number of tasks a worker is running
Running(t) == Cardinality({i \in Idx : t[i].st = "running"})

\* a join that returns as soon as one call has returned
AnyReturned(t) == \E i \in Idx : t[i].st = "done"

\* parallel(...) returns once every dispatched call has returned
AllReturned(t) == \A i \in Idx : t[i].st = "done"

\* a result list assembled in the order the calls completed
RetsByCompletion(t, order) == [i \in Idx |-> t[order[i + 1]].obj]

\* the list parallel(...) returns: one result per dispatched call, in the
\* order of dispatch
Rets(t, order) == [i \in Idx |-> t[i].obj]

\* parallel(delayed(_parallel_fit_per_epoch)(..., epoch, ..., idx, estimator,
\* ...) for idx, estimator in enumerate(estimators)) (lines 275-292)
Dispatch ==
    /\ pc = "loop"
    /\ epoch < args.epochs
    /\ task' = [i \in Idx |-> [st |-> "queued", b |-> 0, obj |-> estimators[i],
                               epoch |-> epoch, idx |-> i, trace |-> << >>]]
    /\ doneOrder' = << >>
    /\ before' = Values(estimators_)
    /\ pc' = "training"
    /\ UNCHANGED << train_loader, fgsm, errValue, is_classification, n_jobs, estimators_, n_outputs, heap,
                    args, err, estimators, best, epoch, pool, calls, makeCalls,
                    hist, commits, saves, produced, entry >>

\* a worker takes the next queued call and enters _parallel_fit_per_epoch:
\* set_optimizer on the estimator it was handed (lines 86-102)
WorkerStart(i) ==
    /\ pc = "training"
    /\ task[i].st = "queued"
    /\ \A j \in Idx : j < i => task[j].st # "queued"
    /\ \A j \in Idx : task[j].st # "failed"
    /\ Running(task) < n_jobs
    /\ LET o == Handed(task[i].obj, n_jobs, calls, task[i].epoch, i)
       IN /\ task' = [task EXCEPT ![i].st = "running", ![i].obj = o]
          /\ heap' = [x \in (DOMAIN heap) \cup {o} |->
                         IF x = o
                         THEN [heap[task[i].obj] EXCEPT !.lastIdx = task[i].idx]
                         ELSE heap[x]]
    /\ UNCHANGED << train_loader, fgsm, errValue, is_classification, n_jobs, estimators_, n_outputs, args,
                    pc, err, estimators, best, epoch, pool, doneOrder, calls,
                    makeCalls, hist, commits, saves, produced, entry, before >>

\* what one iteration does to the estimator when the batch passes the range
\* check (lines 111-123), and what it has done when the check raises
\* (lines 111-115)
PassedOps == << "forward", "backward", "fgsm", "zero_grad", "forward",
                "forward_adv", "backward", "step" >>

RaisedOps == << "forward", "backward", "fgsm" >>

\* a progress test that counts batches from one
LogsFromOne(batch_idx, log_interval) == (batch_idx + 1) % log_interval = 0

\* if batch_idx % log_interval == 0 (line 126)
Logs(batch_idx, log_interval) == batch_idx % log_interval = 0

\* one iteration of the batch loop (lines 104-144): the range check of
\* _get_fgsm_samples raises, or the optimizer takes one step and the status
\* line is printed when due
WorkerBatch(i) ==
    /\ pc = "training"
    /\ task[i].st = "running"
    /\ task[i].b < NBatches
    /\ \E batch \in TrainBatches :
          IF RangeOK(batch)
          THEN /\ heap' = [heap EXCEPT ![task[i].obj].steps = @ + 1]
               /\ task' = [task EXCEPT
                             ![i].b = @ + 1,
                             ![i].trace = Append(@,
                                 [batch_idx |-> task[i].b, ops |-> PassedOps,
                                  printed |-> Logs(task[i].b, args.log_interval)])]
          ELSE /\ task' = [task EXCEPT
                             ![i].st = "failed",
                             ![i].trace = Append(@,
                                 [batch_idx |-> task[i].b, ops |-> RaisedOps,
                                  printed |-> FALSE])]
               /\ UNCHANGED heap
    /\ UNCHANGED << train_loader, fgsm, errValue, is_classification, n_jobs, estimators_, n_outputs, args,
                    pc, err, estimators, best, epoch, pool, doneOrder, calls,
                    makeCalls, hist, commits, saves, produced, entry, before >>

\* return estimator (line 146)
WorkerReturn(i) ==
    /\ pc = "training"
    /\ task[i].st = "running"
    /\ task[i].b = NBatches
    /\ task' = [task EXCEPT ![i].st = "done"]
    /\ doneOrder' = Append(doneOrder, i)
    /\ UNCHANGED << train_loader, fgsm, errValue, is_classification, n_jobs, estimators_, n_outputs, heap,
                    args, pc, err, estimators, best, epoch, pool, calls,
                    makeCalls, hist, commits, saves, produced, entry, before >>

\* rets = parallel(...); estimators = rets (lines 277-294), then the
\* validation of this epoch or the next iteration
Join ==
    /\ pc = "training"
    /\ AllReturned(task)
    /\ LET rets == Rets(task, doneOrder)
       IN /\ estimators' = rets
          /\ produced' = Append(produced, Values(rets))
    /\ task' = [i \in Idx |-> IdleTask]
    /\ IF args.test_loader
       THEN pc' = "validation" /\ epoch' = epoch
       ELSE pc' = "loop" /\ epoch' = NextEpoch(epoch)
    /\ UNCHANGED << train_loader, fgsm, errValue, is_classification, n_jobs, estimators_, n_outputs, heap,
                    args, err, best, pool, doneOrder, calls, makeCalls, hist,
                    commits, saves, entry, before >>

\* a trainer raised: parallel(...) re-raises in the caller, the with block
\* releases the pool and fit() fails
JoinFail ==
    /\ pc = "training"
    /\ \E i \in Idx : task[i].st = "failed"
    /\ Raise("input_range")
    /\ pool' = Released(pool)
    /\ UNCHANGED << train_loader, fgsm, errValue, is_classification, n_jobs, estimators_, n_outputs, args,
                    best, epoch, calls, makeCalls, hist, commits, saves,
                    produced, entry, before >>

\* the loop is over, the with block ends (line 275 / 321)
ExitLoop ==
    /\ pc = "loop"
    /\ epoch >= args.epochs
    /\ pool' = Released(pool)
    /\ pc' = "final"
    /\ UNCHANGED << train_loader, fgsm, errValue, is_classification, n_jobs, estimators_, n_outputs, heap,
                    args, err, estimators, best, epoch, task, doneOrder, calls,
                    makeCalls, hist, commits, saves, produced, entry, before >>

\* ------------------------------------- validation and best snapshot
\* a commit that leaves the container it found in place
KeptContainer(list) == estimators_

\* a container that misses the last estimator of `list`
ReplacedButLast(list) == [i \in (DOMAIN list) \ {NEstimators - 1} |-> list[i]]

\* self.estimators_ = nn.ModuleList(); self.estimators_.extend(list): the new
\* container refers to the very objects of `list`
Replaced(list) == list

\* __len__: len(self.estimators_)
EnsembleLen == Cardinality(DOMAIN estimators_)

\* the validation pass over test_loader and the comparison with the best so
\* far (lines 296-314 / 433-448); the metric m depends on the estimators and
\* the data, which are the caller's
Validation(m) ==
    /\ pc = "validation"
    /\ hist' = Append(hist, m)
    /\ IF Improves(is_classification, m, best)
       THEN /\ best' = m
            /\ estimators_' = Replaced(estimators)
            /\ commits' = Append(commits, [epoch |-> epoch, phase |-> "loop",
                                           vals |-> Values(estimators)])
            /\ IF args.save_model
               THEN pc' = "save" /\ epoch' = epoch
               ELSE pc' = "loop" /\ epoch' = NextEpoch(epoch)
       ELSE /\ pc' = "loop"
            /\ epoch' = NextEpoch(epoch)
            /\ UNCHANGED << best, estimators_, commits >>
    /\ UNCHANGED << train_loader, fgsm, errValue, is_classification, n_jobs, n_outputs, heap, args, err,
                    estimators, pool, task, doneOrder, calls, makeCalls, saves,
                    produced, entry, before >>

\* the validation pass raises (the test loader or a forward pass fails): the
\* exception leaves the with block and fit()
ValidationFail ==
    /\ pc = "validation"
    /\ Raise("validation")
    /\ pool' = Released(pool)
    /\ UNCHANGED << train_loader, fgsm, errValue, is_classification, n_jobs,
                    estimators_, n_outputs, args, best, epoch, calls,
                    makeCalls, hist, commits, saves, produced, entry, before >>

\* io.save(self, save_dir, self.logger) after an improvement (lines 315-316 /
\* 449-450); the collaborator returns or raises
Save(ok) ==
    /\ pc = "save"
    /\ saves' = Append(saves, [epoch |-> epoch, phase |-> "loop",
                               vals |-> Values(estimators_)])
    /\ IF ok
       THEN /\ pc' = "loop"
            /\ epoch' = NextEpoch(epoch)
            /\ UNCHANGED << err, estimators, task, doneOrder, heap, pool >>
       ELSE /\ Raise("save")
            /\ pool' = Released(pool)
            /\ UNCHANGED epoch
    /\ UNCHANGED << train_loader, fgsm, errValue, is_classification, n_jobs, estimators_, n_outputs, args,
                    best, calls, makeCalls, hist, commits, produced, entry, before >>

\* a condition that forgets save_model
SaveAtEndRegardless(save_model, test_loader) == ~ test_loader

\* if save_model and not test_loader (line 324 / 458)
SaveAtEnd(save_model, test_loader) == save_model /\ ~ test_loader

\* self.estimators_ = nn.ModuleList(); self.estimators_.extend(rets)
\* (lines 322-324 / 456-458)
FinalCommit ==
    /\ pc = "final"
    /\ estimators_' = Replaced(estimators)
    /\ commits' = Append(commits, [epoch |-> epoch, phase |-> "end",
                                   vals |-> Values(estimators)])
    /\ pc' = IF SaveAtEnd(args.save_model, args.test_loader) THEN "final_save"
             ELSE "done"
    /\ UNCHANGED << train_loader, fgsm, errValue, is_classification, n_jobs, n_outputs, heap, args, err,
                    estimators, best, epoch, pool, task, doneOrder, calls,
                    makeCalls, hist, saves, produced, entry, before >>

\* io.save(self, save_dir, self.logger) after the loop (line 325 / 459)
FinalSave(ok) ==
    /\ pc = "final_save"
    /\ saves' = Append(saves, [epoch |-> epoch, phase |-> "end",
                               vals |-> Values(estimators_)])
    /\ IF ok
       THEN /\ pc' = "done"
            /\ UNCHANGED << err, estimators, task, doneOrder, heap >>
       ELSE Raise("save")
    /\ UNCHANGED << train_loader, fgsm, errValue, is_classification, n_jobs, estimators_, n_outputs, args,
                    best, epoch, pool, calls, makeCalls, hist, commits,
                    produced, entry, before >>

Next ==
    \/ \E a \in FitArgs : Fit(a)
    \/ Return
    \/ ValidateParameters
    \/ Prepare
    \/ Dispatch
    \/ \E i \in Idx : WorkerStart(i)
    \/ \E i \in Idx : WorkerBatch(i)
    \/ \E i \in Idx : WorkerReturn(i)
    \/ Join
    \/ JoinFail
    \/ ExitLoop
    \/ \E m \in 0 .. MaxMetric : Validation(m)
    \/ ValidationFail
    \/ \E ok \in BOOLEAN : Save(ok)
    \/ FinalCommit
    \/ \E ok \in BOOLEAN : FinalSave(ok)

Spec == Init /\ [][Next]_vars

\* the steps fit() takes once it has been entered, on the coordinating
\* thread and on the workers
FitStep ==
    \/ ValidateParameters
    \/ Prepare
    \/ Dispatch
    \/ \E i \in Idx : WorkerStart(i)
    \/ \E i \in Idx : WorkerBatch(i)
    \/ \E i \in Idx : WorkerReturn(i)
    \/ Join
    \/ JoinFail
    \/ ExitLoop
    \/ \E m \in 0 .. MaxMetric : Validation(m)
    \/ ValidationFail
    \/ \E ok \in BOOLEAN : Save(ok)
    \/ FinalCommit
    \/ \E ok \in BOOLEAN : FinalSave(ok)

\* a running fit() keeps running: the interpreter executes the next statement
\* and joblib's workers execute the calls they were given
FairSpec == Spec /\ WF_vars(FitStep)

\* ----------------------- _parallel_fit_per_epoch taken on its own
\* the first epoch of a first fit() call has just been dispatched, with any
\* valid log_interval
InitTrainer ==
    /\ is_classification \in BOOLEAN
    /\ n_jobs \in {1, 2}
    /\ train_loader = [classes |-> 2, rank |-> 1, dim |-> 1]
    /\ estimators_ = << >>
    /\ n_outputs = DecideNOutputs(train_loader, TRUE)
    /\ estimators = [i \in Idx |-> << 1, 0, i >>]
    /\ heap = [o \in {<< 1, 0, i >> : i \in Idx} |-> NewEstimator(o[3], 1)]
    /\ \E li \in 1 .. MaxInterval :
          args = [NoArgs EXCEPT !.log_interval = li, !.epochs = MaxEpochs]
    /\ pc = "training"
    /\ err = "none"
    /\ best = InitialBest(is_classification)
    /\ epoch = 0
    /\ pool = "held"
    /\ task = [i \in Idx |-> [st |-> "queued", b |-> 0, obj |-> estimators[i],
                              epoch |-> epoch, idx |-> i, trace |-> << >>]]
    /\ doneOrder = << >>
    /\ calls = 1
    /\ makeCalls = NEstimators
    /\ hist = << >>
    /\ commits = << >>
    /\ saves = << >>
    /\ produced = << >>
    /\ entry = [refs |-> << >>, vals |-> << >>, n_outputs |-> Unset]
    /\ before = << >>
    /\ errValue = Unset
    /\ fgsm = NoCall

NextTrainer ==
    \/ \E i \in Idx : WorkerStart(i)
    \/ \E i \in Idx : WorkerBatch(i)
    \/ \E i \in Idx : WorkerReturn(i)

SpecTrainer == InitTrainer /\ [][NextTrainer]_vars

\* ------------------------------- _get_fgsm_samples taken on its own
InitFgsm ==
    /\ is_classification = TRUE
    /\ n_jobs = 1
    /\ estimators_ = << >>
    /\ n_outputs = Unset
    /\ heap = << >>
    /\ args = NoArgs
    /\ pc = "idle"
    /\ err = "none"
    /\ estimators = << >>
    /\ best = Unset
    /\ epoch = 0
    /\ pool = "none"
    /\ task = [i \in Idx |-> IdleTask]
    /\ doneOrder = << >>
    /\ calls = 0
    /\ makeCalls = 0
    /\ hist = << >>
    /\ commits = << >>
    /\ saves = << >>
    /\ produced = << >>
    /\ entry = [refs |-> << >>, vals |-> << >>, n_outputs |-> Unset]
    /\ before = << >>
    /\ errValue = Unset
    /\ fgsm \in FgsmCalls
    /\ train_loader = [classes |-> 1, rank |-> 1, dim |-> 1]

\* the call is made and raises or returns
FgsmCall ==
    /\ fgsm.st = "ready"
    /\ LET r == GetFgsmSamples(fgsm.sample, fgsm.epsilon, fgsm.grad)
       IN fgsm' = [fgsm EXCEPT !.st = r.st, !.out = r.out, !.report = r.report]
    /\ UNCHANGED << train_loader, is_classification, n_jobs, estimators_,
                    n_outputs, heap, args, pc, err, estimators, best, epoch,
                    pool, task, doneOrder, calls, makeCalls, hist, commits,
                    saves, produced, entry, before, errValue >>

NextFgsm == FgsmCall

SpecFgsm == InitFgsm /\ [][NextFgsm]_vars

\* ================================================================ claims
\* the comparison the specification states, written out on its own
StrictlyBetter(is_clf, a, b) == IF is_clf THEN a > b ELSE a < b

\* the best of the initial value and the first n validation metrics
RECURSIVE BestOf(_, _, _)
BestOf(is_clf, h, n) ==
    IF n = 0 THEN (IF is_clf THEN 0 ELSE Inf)
    ELSE LET p == BestOf(is_clf, h, n - 1)
         IN IF StrictlyBetter(is_clf, h[n], p) THEN h[n] ELSE p

\* the epochs (zero-based) whose metric strictly improved on the best before
ImprovingEpochs(is_clf, h) ==
    {e \in 0 .. (Len(h) - 1) :
        StrictlyBetter(is_clf, h[e + 1], BestOf(is_clf, h, e))}

\* the best-scoring epoch (zero-based), the earliest one on ties
BestEpoch(is_clf, h) ==
    CHOOSE e \in 0 .. (Len(h) - 1) :
        /\ \A f \in 0 .. (Len(h) - 1) : ~ StrictlyBetter(is_clf, h[f + 1], h[e + 1])
        /\ \A f \in 0 .. (e - 1) : h[f + 1] # h[e + 1]

ParamNames == {"lr", "weight_decay", "epochs", "epsilon", "log_interval"}

\* C1: with a validation loader, estimators_ is replaced only at a strictly
\* improving epoch, so that on return it holds the set produced by the
\* best-scoring epoch (the earliest on ties).
C1_BestEpochCommitted ==
    (/\ pc = "done" /\ args.test_loader
     /\ ImprovingEpochs(is_classification, hist) # {}) =>
        Values(estimators_) = produced[BestEpoch(is_classification, hist) + 1]

\* C2: when a hyperparameter is out of range, fit() raises with no estimator
\* instantiated and with n_outputs and estimators_ unchanged.
C2_ValidationBeforeConstruction ==
    (pc = "failed" /\ err \in ParamNames) =>
        /\ makeCalls = 0
        /\ n_outputs = entry.n_outputs
        /\ estimators_ = entry.refs
        /\ Values(estimators_) = entry.vals

\* C3: between two improvements the estimators held in estimators_ keep the
\* parameters they had when they were committed, for every worker-pool
\* configuration.
C3_CommittedSetFrozen ==
    (args.test_loader /\ commits # << >>) =>
        Values(estimators_) = commits[Len(commits)].vals

\* C4: when a trainer raises during epoch e, fit() fails, nothing is validated,
\* committed or saved for epoch e or later, and estimators_ is as it was before
\* epoch e started: no mix of training levels, no partly trained estimator.
C4_FailedEpochLeavesCommitted ==
    (pc = "failed" /\ err = "input_range") =>
        /\ Len(hist) <= epoch
        /\ \A k \in 1 .. Len(commits) : commits[k].epoch < epoch
        /\ \A k \in 1 .. Len(saves) : saves[k].epoch < epoch
        /\ Values(estimators_) = before
        /\ \A i, j \in DOMAIN estimators_ :
              /\ heap[estimators_[i]].steps = heap[estimators_[j]].steps
              /\ heap[estimators_[i]].steps % NBatches = 0

\* C5: with a validation loader and save_model, save is invoked exactly once
\* for each strictly improving epoch, right after its validation and after
\* estimators_ was replaced, never for another epoch and never after the loop;
\* without save_model it is never invoked.
C5_SaveOncePerImprovement ==
    (pc # "idle" /\ args.test_loader) =>
        IF ~ args.save_model THEN saves = << >>
        ELSE LET imp  == ImprovingEpochs(is_classification, hist)
                 due  == IF pc = "save" THEN imp \ {epoch} ELSE imp
             IN /\ Cardinality(due) = Len(saves)
                /\ {saves[k].epoch : k \in 1 .. Len(saves)} = due
                /\ pc = "save" => epoch \in imp
                /\ \A k \in 1 .. Len(saves) :
                      /\ saves[k].phase = "loop"
                      /\ commits[k].epoch = saves[k].epoch
                      /\ saves[k].vals = commits[k].vals
                      /\ saves[k].vals = produced[saves[k].epoch + 1]

C5_Witness ==
    /\ pc = "done" /\ args.test_loader /\ args.save_model
    /\ Len(hist) = 2 /\ Len(saves) = 1
    /\ hist[2] = hist[1]

\* C6: with a validation loader and save_model, a fit() that returns has
\* invoked save at least once, and the last state saved is the set of the
\* best-scoring epoch.
C6_BestSaved ==
    (pc = "done" /\ args.test_loader /\ args.save_model) =>
        /\ Len(saves) >= 1
        /\ saves[Len(saves)].vals = produced[BestEpoch(is_classification, hist) + 1]

\* C7: without a validation loader, estimators_ is not written and save is
\* not invoked during the loop; after the last epoch the final set is
\* committed exactly once, and save is invoked once iff save_model.
C7_CommitOnceAtEnd ==
    (pc \notin {"idle", "validate", "prepare"} /\ ~ args.test_loader) =>
        /\ hist = << >>
        /\ pc \in {"loop", "training", "final"} =>
              /\ commits = << >> /\ saves = << >>
              /\ estimators_ = entry.refs
        /\ pc \in {"final_save", "done"} \/ (pc = "failed" /\ err = "save") =>
              /\ Len(commits) = 1
              /\ commits[1].phase = "end"
              /\ commits[1].vals = produced[args.epochs]
              /\ Values(estimators_) = produced[args.epochs]
        /\ pc = "final_save" => saves = << >>
        /\ pc = "done" => Len(saves) = (IF args.save_model THEN 1 ELSE 0)
        /\ \A k \in 1 .. Len(saves) :
              saves[k].phase = "end" /\ saves[k].vals = produced[args.epochs]

C7_Witness ==
    /\ pc = "done" /\ ~ args.test_loader /\ args.save_model
    /\ args.epochs = 2 /\ Len(saves) = 1 /\ Len(commits) = 1

\* C8: within one fit() call the tracked best never gets worse, and after each
\* validated epoch it is the best of the initial value and all metrics seen.
C8_BestIsBestSoFar ==
    best # Unset => best = BestOf(is_classification, hist, Len(hist))

C8_BestMonotone ==
    /\ [] C8_BestIsBestSoFar
    /\ [][(best # Unset /\ best' # Unset /\ calls' = calls) =>
             (best' = best \/ StrictlyBetter(is_classification, best', best))]_vars

C8_Witness ==
    /\ Len(hist) = 2
    /\ StrictlyBetter(is_classification, hist[1], hist[2])
    /\ best = hist[1]
    /\ best # InitialBest(is_classification)

\* C9: whatever the completion order of the workers, the list the dispatch
\* returns has the length of the input list and its element i is the result of
\* training input estimator i, dispatched with idx = i.
C9_ResultsInInputOrder ==
    /\ \A e \in 1 .. Len(produced) :
          /\ DOMAIN produced[e] = Idx
          /\ \A i \in Idx :
                /\ produced[e][i].tag = i
                /\ produced[e][i].lastIdx = i
                /\ produced[e][i].steps = e * NBatches
    /\ pc \in {"validation", "save", "loop", "final"} /\ produced # << >> =>
          /\ DOMAIN estimators = Idx
          /\ Values(estimators) = produced[Len(produced)]

C9_Witness ==
    /\ pc \in {"validation", "loop"}
    /\ Len(produced) = 2
    /\ Len(doneOrder) = NEstimators
    /\ doneOrder[1] # 0

\* C10: no trainer of epoch N+1 starts, and no validation of epoch N starts,
\* before every trainer of epoch N has returned and the returned list has
\* replaced the working list; validation never overlaps a worker.
C10_EpochBarrier ==
    /\ \A i \in Idx : task[i].st # "idle" =>
          /\ pc = "training"
          /\ task[i].epoch = epoch
          /\ Len(produced) = epoch
    /\ pc = "training" => \A i \in Idx :
          task[i].st = "queued" =>
              /\ task[i].obj = estimators[i]
              /\ heap[task[i].obj].steps = epoch * NBatches
    /\ pc \in {"validation", "save"} =>
          /\ \A i \in Idx : task[i].st = "idle"
          /\ Len(produced) = epoch + 1
          /\ Values(estimators) = produced[epoch + 1]
          /\ \A i \in Idx : heap[estimators[i]].steps = (epoch + 1) * NBatches

C10_Witness ==
    /\ pc = "training" /\ epoch = 1
    /\ \E i \in Idx : task[i].st = "running" /\ task[i].b = 1
    /\ \E i \in Idx : task[i].st = "done"

\* the parameters of `a` that are outside their documented range
Offending(a) ==
    {p \in ParamNames :
        \/ p = "lr" /\ a.lr <= 0
        \/ p = "weight_decay" /\ a.weight_decay < 0
        \/ p = "epochs" /\ a.epochs <= 0
        \/ p = "epsilon" /\ (a.epsilon <= 0 \/ a.epsilon > Scale)
        \/ p = "log_interval" /\ a.log_interval <= 0}

C11_InRangeBatchAccepted ==
    (/\ fgsm.st \in {"returned", "raised"}
     /\ \A i \in DOMAIN fgsm.sample :
           0 <= fgsm.sample[i] /\ fgsm.sample[i] <= Scale
     /\ 0 < fgsm.epsilon /\ fgsm.epsilon <= Scale) =>
        /\ fgsm.st = "returned"
        /\ DOMAIN fgsm.out = DOMAIN fgsm.sample
        /\ \A i \in DOMAIN fgsm.out :
              /\ 0 <= fgsm.out[i] /\ fgsm.out[i] <= Scale
              /\ fgsm.out[i] - fgsm.sample[i] <= fgsm.epsilon
              /\ fgsm.sample[i] - fgsm.out[i] <= fgsm.epsilon

\* C12: for a batch with a value below 0 or above 1, _get_fgsm_samples raises,
\* the error reports the observed minimum and maximum of the batch (to the
\* three decimals it prints), and no perturbed sample is produced.
C12_OutOfRangeRejected ==
    (/\ fgsm.st \in {"returned", "raised"}
     /\ \E i \in DOMAIN fgsm.sample :
           fgsm.sample[i] < 0 \/ fgsm.sample[i] > Scale) =>
        /\ fgsm.st = "raised"
        /\ fgsm.out = << >>
        /\ \E lo, hi \in Range(fgsm.sample) :
              /\ \A i \in DOMAIN fgsm.sample :
                    lo <= fgsm.sample[i] /\ fgsm.sample[i] <= hi
              /\ 2 * (fgsm.report.min * Scale - 1000 * lo) <= Scale
              /\ 2 * (1000 * lo - fgsm.report.min * Scale) <= Scale
              /\ 2 * (fgsm.report.max * Scale - 1000 * hi) <= Scale
              /\ 2 * (1000 * hi - fgsm.report.max * Scale) <= Scale

C12_Witness ==
    /\ fgsm.st = "raised"
    /\ Len(fgsm.sample) = 2
    /\ fgsm.sample[1] = Scale + 1 /\ fgsm.sample[2] = -1
    /\ fgsm.report.max > 1000 /\ fgsm.report.min < 0

\* C14: after every fit() that returns normally len(ensemble) equals
\* n_estimators, and every replacement of estimators_ installs exactly
\* n_estimators estimators.
C14_CommittedCount ==
    /\ [](pc = "done" => EnsembleLen = NEstimators)
    /\ [][estimators_' # estimators_ =>
            /\ Cardinality(DOMAIN estimators_') = NEstimators
            /\ Cardinality(Range(estimators_')) = NEstimators]_vars

C14_Witness ==
    /\ pc = "done"
    /\ args.test_loader /\ args.epochs = MaxEpochs
    /\ Len(commits) >= 2
    /\ commits[1].phase = "loop"
    /\ EnsembleLen = NEstimators

\* C15: in AdversarialTrainingRegressor.fit, n_outputs is the trailing
\* dimension of a target batch of the training loader (1 for rank-1 targets),
\* not the number of distinct target values, from the moment it is decided
\* to the end of the call.
C15_RegressorNOutputs ==
    (/\ ~ is_classification
     /\ pc \in {"loop", "training", "validation", "save", "final",
                "final_save", "done"}) =>
        n_outputs = IF train_loader.rank = 1 THEN 1 ELSE train_loader.dim

\* the estimators of the committed set that the running call instantiated
OwnEstimators == {i \in DOMAIN estimators_ : heap[estimators_[i]].call = calls}

\* the running call has started training, or has failed after it did
TrainingStarted ==
    \/ pc \in {"training", "validation", "save", "final", "final_save", "done"}
    \/ pc = "failed" /\ err \in {"input_range", "save"}

\* C16 as stated: from the point a second fit() starts training (also while
\* no epoch has improved yet, and if the call fails) estimators_ holds no
\* estimator of the earlier call.
C16_PriorDiscardedAtTraining ==
    (entry.refs # << >> /\ TrainingStarted) => OwnEstimators = DOMAIN estimators_

\* C16 as the code has it: on normal return estimators_ holds n_estimators
\* estimators, all instantiated by the returning call, and so it does from
\* the call's first commit on; until that commit (and if the call fails before
\* it) estimators_ is the committed set of the earlier call, unchanged.
C16_PriorKeptUntilFirstCommit ==
    /\ pc = "done" => DOMAIN estimators_ = Idx
    /\ commits # << >> => OwnEstimators = DOMAIN estimators_
    /\ (pc # "idle" /\ commits = << >>) =>
          /\ estimators_ = entry.refs
          /\ Values(estimators_) = entry.vals

C16_Witness ==
    /\ calls = 2
    /\ entry.refs # << >>
    /\ pc = "failed" /\ err = "input_range"
    /\ epoch = 1
    /\ commits = << >>
    /\ estimators_ = entry.refs
    /\ OwnEstimators = {}

\* C18: when io.save fails after an improving epoch, fit() ends with that
\* failure, and estimators_ and the best metric keep the values the improving
\* epoch gave them: the set that epoch trained and its metric.
C18_SaveFailureKeepsSnapshot ==
    /\ [][(pc = "save" /\ pc' # "loop") =>
             /\ pc' = "failed" /\ err' = "save"
             /\ estimators_' = estimators_
             /\ estimators_ = estimators
             /\ Values(estimators_)' = Values(estimators_)
             /\ best' = best]_vars
    /\ []((pc = "failed" /\ err = "save" /\ args.test_loader) =>
             /\ epoch \in ImprovingEpochs(is_classification, hist)
             /\ Len(hist) = epoch + 1
             /\ best = hist[epoch + 1]
             /\ Values(estimators_) = produced[epoch + 1]
             /\ OwnEstimators = Idx)

C18_Witness ==
    /\ pc = "failed" /\ err = "save"
    /\ args.test_loader
    /\ calls = 2 /\ entry.refs # << >>
    /\ epoch = 1
    /\ Len(saves) = 2
    /\ best = hist[2]
    /\ Values(estimators_) = produced[2]

\* the positions of fit() inside the with block of the worker pool
InsidePool == {"loop", "training", "validation", "save"}

\* C19: the worker pool is acquired once per fit() call, before the first
\* epoch; every epoch of the call runs on that pool; the pool is released on
\* every exit from the epoch loop (its end, a worker failure, a failing
\* validation pass, a failing save), so that no terminal state holds it, and
\* the commit after the loop is made with the pool released.
C19_PoolScopedToFit ==
    /\ [](pc \in InsidePool => pool = "held")
    /\ [](pc \in {"done", "failed", "final", "final_save", "idle"} =>
             pool # "held")
    /\ [][(pool' = "held" /\ pool # "held") =>
             (pc = "prepare" /\ pc' = "loop" /\ epoch' = 0)]_vars
    /\ [][(pc \in InsidePool /\ pc' \in InsidePool) => pool' = pool]_vars
    /\ [][(pc \in InsidePool /\ pc' \notin InsidePool) =>
             pool' = "released"]_vars
    /\ [][(commits' # commits /\ pc = "final") => pool = "released"]_vars

C19_Witness ==
    /\ pc = "failed" /\ err = "validation"
    /\ epoch = 1
    /\ pool = "released"
    /\ Len(produced) = 2

\* the number of optimizer steps in a sequence of operations
StepsIn(ops) == Cardinality({k \in DOMAIN ops : ops[k] = "step"})

\* C20: an invocation of _parallel_fit_per_epoch visits the batches of the
\* loader in order, each once, and all of them when it returns; on each batch
\* it does a clean forward and backward, generates the adversarial sample,
\* does the forward on the clean and on the adversarial input and takes
\* exactly one optimizer step; it prints the status of batch b exactly when
\* b % log_interval = 0; a batch that fails the range check gets no optimizer
\* step and is the last batch visited.
C20_OnePassPerInvocation ==
    \A i \in Idx : task[i].st \in {"running", "done", "failed"} =>
        LET t == task[i].trace
            passed == IF task[i].st = "failed" THEN Len(t) - 1 ELSE Len(t)
        IN /\ \A k \in DOMAIN t : t[k].batch_idx = k - 1
           /\ Len(t) <= NBatches
           /\ task[i].st = "done" => Len(t) = NBatches
           /\ \A k \in 1 .. passed :
                 /\ t[k].ops = << "forward", "backward", "fgsm", "zero_grad",
                                  "forward", "forward_adv", "backward", "step" >>
                 /\ StepsIn(t[k].ops) = 1
                 /\ t[k].printed <=> ((k - 1) % args.log_interval = 0)
           /\ t # << >> => (passed >= 1 => t[1].printed)
           /\ task[i].st = "failed" =>
                 /\ Len(t) >= 1
                 /\ StepsIn(t[Len(t)].ops) = 0
                 /\ ~ t[Len(t)].printed
           /\ heap[task[i].obj].steps = task[i].epoch * NBatches + passed

C20_Witness ==
    /\ args.log_interval = 2
    /\ task[0].st = "done"
    /\ Len(task[0].trace) = NBatches
    /\ task[0].trace[1].printed /\ ~ task[0].trace[2].printed
    /\ heap[task[0].obj].steps = NBatches
    /\ task[1].st = "failed"
    /\ Len(task[1].trace) = 2
    /\ heap[task[1].obj].steps = 1

\* C17: a fit() call that passed validation ends, and unless a worker or a
\* collaborator failed it ends committed; training starts only after
\* validation; the epochs dispatched are 0, 1, ..., epochs-1, in this order
\* and each once; each dispatch makes one trainer invocation per estimator,
\* and on return each of the n_estimators estimators has been trained once in
\* each epoch.
C17_FitReachesCommitted ==
    /\ (pc = "prepare") ~>
          (pc = "done" \/
           (pc = "failed" /\ err \in {"input_range", "validation", "save"}))
    /\ [](pc = "training" => ValidationError(args) = "none")
    /\ [][(pc' = "training" /\ pc # "training") =>
             /\ pc = "loop"
             /\ epoch' = Len(produced) /\ epoch' < args.epochs
             /\ \A i \in Idx :
                   /\ task'[i].st = "queued"
                   /\ task'[i].idx = i /\ task'[i].epoch = epoch'
                   /\ task'[i].obj = estimators[i]]_vars
    /\ [][(pc = "training" /\ pc' \notin {"training", "failed"}) =>
             /\ Len(produced') = epoch + 1
             /\ \A i \in Idx : task[i].st = "done" /\ task[i].epoch = epoch]_vars
    /\ [](pc = "done" =>
             /\ Len(produced) = args.epochs
             /\ \A e \in 1 .. args.epochs : \A i \in Idx :
                   /\ produced[e][i].steps = e * NBatches
                   /\ produced[e][i].lastIdx = i
                   /\ produced[e][i].tag = i)

C17_Witness ==
    /\ pc = "done"
    /\ args.epochs = MaxEpochs
    /\ Len(produced) = MaxEpochs
    /\ \A i \in Idx : produced[MaxEpochs][i].steps = MaxEpochs * NBatches
    /\ args.test_loader /\ args.save_model
    /\ Len(hist) = MaxEpochs

====
